---- MODULE Spec2Model ----
(***************************************************************************)
(* har-lolicode-prototype-v2, web frontend core.                           *)
(*                                                                         *)
(*   HARUploader        reads a dropped/selected file, normalizes its HAR  *)
(*                      JSON and publishes the semantic entries            *)
(*   LoliCodeCustomizer accumulates a selection and settings and hands a   *)
(*                      LoliCodeConfig to onGenerate                       *)
(*   DependencyGraph    derives the edge list of the adjacency matrix and  *)
(*                      renders the critical path                          *)
(*                                                                         *)
(* JavaScript arrays are 0-based, TLA+ sequences 1-based: the element at   *)
(* JavaScript index i is the element at position i + 1 of the sequence.    *)
(* An optional value (null / undefined or a value) is a sequence of length *)
(* 0 or 1.                                                                 *)
(***************************************************************************)
EXTENDS Integers, Sequences, FiniteSets, TLC

VARIABLES
    \* HARUploader
    isDragging,       \* useState(false)
    isProcessing,     \* useState(false)
    error,            \* useState<string | null>(null)
    pending,          \* processHARFile calls suspended at `await file.text()`
    started,          \* number of processHARFile calls made so far
    harEntries,       \* the store's published entries (payload of setHarEntries)
    publishedBy,      \* the call whose dispatch published harEntries (0: none yet)
    lastDone,         \* the call that resumed last: its id, its text, whether it dispatched
    \* props of LoliCodeCustomizer and DependencyGraph
    entries,          \* props.entries
    dependencyMatrix, \* props.dependencyMatrix / props.matrix
    handed,           \* the config the parent's onGenerate was handed last, if any
    \* LoliCodeCustomizer
    selectedIndices,  \* useState<number[]>([])
    useProxy,         \* useState(true)
    followRedirects,  \* useState(true)
    requestTimeout,   \* useState(30)
    retryCount,       \* useState(0)
    customHeaders,    \* useState<CustomHeader[]>([])
    generated,        \* the config passed to onGenerate by the last step, if any
    lastOp,           \* the customizer handler that ran last
    \* DependencyGraph
    dependencies,     \* useMemo value of the edge list
    criticalPathView, \* the indices of the rendered critical-path buttons, in order
    rendered,         \* what the last render of the graph produced, or what it threw
    lastClicked,      \* the argument of the last onNodeClick call, if any
    \* RequestDataTable
    dependencyCount   \* useMemo value of the number of dependencies

uploaderVars == <<isDragging, isProcessing, error, pending, started, harEntries,
                  publishedBy, lastDone>>
propVars == <<entries, dependencyMatrix, handed>>
customizerVars == <<selectedIndices, useProxy, followRedirects, requestTimeout,
                    retryCount, customHeaders, generated, lastOp>>
graphVars == <<dependencies, criticalPathView, rendered, lastClicked, dependencyCount>>
vars == <<uploaderVars, propVars, customizerVars, graphVars>>

(***************************************************************************)
(* Bounds of the model.                                                    *)
(***************************************************************************)
MaxEntries == 2     \* entries in one HAR file / in props.entries
MaxUploads == 2     \* processHARFile calls in one behaviour
MaxPathLen == 2     \* length of criticalPath
MaxDim == 2         \* dimension of the adjacency matrix
MaxHeaders == 2     \* custom headers held by the customizer

Null == "null"

Some(x) == <<x>>
None == <<>>

\* [0, 1, .., n-1] as a sequence
Range(n) == [p \in 1..n |-> p - 1]

(***************************************************************************)
(* Raw HAR input.                                                          *)
(***************************************************************************)
\* one HAR entry as JSON.parse returns it; request and response are optional
\* (a truncated capture), as are the arrays and body sections inside them
RawEntry(req, resp) ==
    [startedDateTime |-> "2024-01-01T00:00:00Z", time |-> 12,
     request |-> req, response |-> resp]

RawGet ==
    RawEntry(
      Some([method |-> "GET", url |-> "https://a.example/api/items/",
            headers |-> Some(<<[name |-> "Accept", value |-> "*/*"]>>),
            postData |-> None, bodySize |-> None,
            cookies |-> None,
            queryString |-> Some(<<[name |-> "page", value |-> "1"]>>)]),
      Some([status |-> 200, statusText |-> "OK",
            headers |-> None,
            content |-> Some([mimeType |-> "application/json", text |-> "[]",
                              size |-> Some(2)]),
            cookies |-> Some(<<>>)]))

RawPost ==
    RawEntry(
      Some([method |-> "POST", url |-> "not a url",
            headers |-> None,
            postData |-> Some([mimeType |-> "text/plain", text |-> "u=1"]),
            bodySize |-> Some(3),
            cookies |-> Some(<<[name |-> "sid", value |-> "x"]>>),
            queryString |-> None]),
      Some([status |-> 302, statusText |-> "Found",
            headers |-> Some(<<[name |-> "Location", value |-> "/"]>>),
            content |-> None,
            cookies |-> None]))

\* an entry without request and response objects: entry.request.method throws
RawBroken == RawEntry(None, None)

Good == <<RawGet, RawPost>>

\* a capture of n entries that alternates the two good entries, starting with
\* Good[v + 1]; the entry at position brokenAt (if any) is the broken one
RawEntries(v, n, brokenAt) ==
    [p \in 1..n |-> IF p = brokenAt THEN RawBroken ELSE Good[((p - 1 + v) % Len(Good)) + 1]]

\* The text of a file: not JSON at all, or the JSON text of a value of one of
\* these shapes
\*   "noLog"            { }                       harData.log is undefined
\*   "noEntries"        { log: { } }              harData.log.entries is undefined
\*   "entriesNotArray"  { log: { entries: 5 } }   truthy, and has no map method
\*   "har"              { log: { entries: [..] } }
Text(json, shape, raw) == [json |-> json, shape |-> shape, entries |-> raw]

NotJsonText == Text(FALSE, "", <<>>)

BadTexts ==
    {NotJsonText, Text(TRUE, "noLog", <<>>), Text(TRUE, "noEntries", <<>>),
     Text(TRUE, "entriesNotArray", <<>>)}

HarTexts ==
    UNION {{Text(TRUE, "har", RawEntries(v, n, b)) : v \in 0..(Len(Good) - 1), b \in {0, n}} :
             n \in 0..MaxEntries}

Texts == BadTexts \cup HarTexts

(***************************************************************************)
(* processHARFile: normalization (the body of the try block after the      *)
(* await).                                                                 *)
(***************************************************************************)
Thrown(message) == [ok |-> FALSE, message |-> message, value |-> <<>>]
Returned(value) == [ok |-> TRUE, message |-> "", value |-> value]

\* JSON.parse(text): the parsed value, or a SyntaxError
JSONparse(text) ==
    IF text.json
      THEN Returned([shape |-> text.shape, entries |-> text.entries])
      ELSE Thrown("Unexpected token in JSON")

\* x || []
OrEmpty(opt) == IF opt = None THEN <<>> ELSE opt[1]

\* x || 0
OrZero(opt) == IF opt = None \/ opt = Some(0) THEN 0 ELSE opt[1]

EntryIdOneBased(index) == "entry-" \o ToString(index + 1)

\* `entry-${index}`
EntryId(index) == "entry-" \o ToString(index)

\* a map that derives the response body from the request's post-data
MapEntryBodyOfRequest(entry, index) ==
    LET req == entry.request[1]
        resp == entry.response[1]
    IN [entryId |-> EntryId(index),
        timestamp |-> entry.startedDateTime,
        duration |-> entry.time,
        request |->
          [method |-> req.method,
           url |-> req.url,
           headers |-> OrEmpty(req.headers),
           body |-> IF req.postData # None
                      THEN Some([mimeType |-> req.postData[1].mimeType,
                                 text |-> req.postData[1].text,
                                 size |-> OrZero(req.bodySize)])
                      ELSE None,
           cookies |-> OrEmpty(req.cookies),
           queryString |-> OrEmpty(req.queryString)],
        response |->
          [status |-> resp.status,
           statusText |-> resp.statusText,
           headers |-> OrEmpty(resp.headers),
           body |-> IF req.postData # None
                      THEN Some([mimeType |-> req.postData[1].mimeType,
                                 text |-> req.postData[1].text,
                                 size |-> OrZero(req.bodySize)])
                      ELSE None,
           cookies |-> OrEmpty(resp.cookies)],
        tokens |-> <<>>,
        dependencies |-> <<>>]

\* the callback of harData.log.entries.map, for an entry that has a request
\* and a response
MapEntry(entry, index) ==
    LET req == entry.request[1]
        resp == entry.response[1]
    IN [entryId |-> EntryId(index),
        timestamp |-> entry.startedDateTime,
        duration |-> entry.time,
        request |->
          [method |-> req.method,
           url |-> req.url,
           headers |-> OrEmpty(req.headers),
           body |-> IF req.postData # None
                      THEN Some([mimeType |-> req.postData[1].mimeType,
                                 text |-> req.postData[1].text,
                                 size |-> OrZero(req.bodySize)])
                      ELSE None,
           cookies |-> OrEmpty(req.cookies),
           queryString |-> OrEmpty(req.queryString)],
        response |->
          [status |-> resp.status,
           statusText |-> resp.statusText,
           headers |-> OrEmpty(resp.headers),
           body |-> IF resp.content # None
                      THEN Some([mimeType |-> resp.content[1].mimeType,
                                 text |-> resp.content[1].text,
                                 size |-> OrZero(resp.content[1].size)])
                      ELSE None,
           cookies |-> OrEmpty(resp.cookies)],
        tokens |-> <<>>,
        dependencies |-> <<>>]

\* entry.request.method / entry.response.status of an entry without that
\* object throws a TypeError
MapThrows(entry) == entry.request = None \/ entry.response = None

\* a map that skips the entries it cannot read
MapEntriesSkipping(raw) ==
    LET kept == SelectSeq(raw, LAMBDA e : e.request # None /\ e.response # None)
    IN Returned([p \in 1..Len(kept) |-> MapEntry(kept[p], p - 1)])

\* harData.log.entries.map(...): array index i is position i + 1
MapEntries(raw) ==
    IF \E p \in 1..Len(raw) : MapThrows(raw[p])
      THEN Thrown("Cannot read properties of undefined")
      ELSE Returned([p \in 1..Len(raw) |-> MapEntry(raw[p], p - 1)])

\* lines 19-57: the semantic entries, or the error thrown on the way
Normalize(text) ==
    LET parsed == JSONparse(text)
    IN IF ~parsed.ok THEN parsed
       ELSE IF parsed.value.shape \in {"noLog", "noEntries"}
         THEN Thrown("Invalid HAR file format")
       ELSE IF parsed.value.shape = "entriesNotArray"
         THEN Thrown("harData.log.entries.map is not a function")
       ELSE MapEntries(parsed.value.entries)

\* the reducer of setHarEntries: the payload replaces the collection
SetHarEntries(state, payload) == payload

(***************************************************************************)
(* HARUploader.                                                            *)
(***************************************************************************)
\* a File: whether its name ends with ".har", whether its type is
\* "application/json", and its text
File(nameHar, typeJson, text) == [nameHar |-> nameHar, typeJson |-> typeJson, text |-> text]

HarFile(text) == File(TRUE, FALSE, text)
JsonFile(text) == File(FALSE, TRUE, text)
JunkFile == File(FALSE, FALSE, NotJsonText)
DecoyFile == HarFile(Text(TRUE, "har", <<>>))

\* e.dataTransfer.files of a drop
DropLists ==
    {<<>>, <<JunkFile>>}
      \cup {<<HarFile(t)>> : t \in Texts}
      \cup {<<JunkFile, JsonFile(t)>> : t \in BadTexts}
      \cup {<<JsonFile(t), DecoyFile>> : t \in BadTexts}

NoDone == [id |-> 0, text |-> NotJsonText, dispatched |-> FALSE]

\* lines 14-18: the synchronous part of processHARFile, up to the await
processHARFileStart(file) ==
    /\ started < MaxUploads
    /\ started' = started + 1
    /\ isProcessing' = TRUE
    /\ error' = Null
    /\ pending' = pending \cup {[id |-> started + 1, text |-> file.text]}
    /\ UNCHANGED <<harEntries, publishedBy, lastDone>>

\* a resume that dispatches the new entries appended to those published
processHARFileResumeMerging(call) ==
    LET result == Normalize(call.text)
    IN /\ call \in pending
       /\ pending' = pending \ {call}
       /\ IF result.ok
            THEN /\ harEntries' = SetHarEntries(harEntries, harEntries \o result.value)
                 /\ publishedBy' = call.id
                 /\ error' = error
            ELSE /\ error' = result.message
                 /\ UNCHANGED <<harEntries, publishedBy>>
       /\ isProcessing' = FALSE
       /\ lastDone' = [id |-> call.id, text |-> call.text, dispatched |-> result.ok]
       /\ UNCHANGED <<isDragging, started>>

\* lines 18-66: file.text() has resolved; parse, validate, map, dispatch or
\* catch, finally
processHARFileResume(call) ==
    LET result == Normalize(call.text)
    IN /\ call \in pending
       /\ pending' = pending \ {call}
       /\ IF result.ok
            THEN /\ harEntries' = SetHarEntries(harEntries, result.value)
                 /\ publishedBy' = call.id
                 /\ error' = error
            ELSE /\ error' = result.message
                 /\ UNCHANGED <<harEntries, publishedBy>>
       /\ isProcessing' = FALSE
       /\ lastDone' = [id |-> call.id, text |-> call.text, dispatched |-> result.ok]
       /\ UNCHANGED <<isDragging, started>>

\* line 84: f.name.endsWith('.har') || f.type === 'application/json'
IsHarFile(f) == f.nameHar \/ f.typeJson

\* a find that returns the last file that qualifies
FindLastHarFile(files) ==
    IF \E p \in 1..Len(files) : IsHarFile(files[p])
      THEN CHOOSE p \in 1..Len(files) :
             IsHarFile(files[p]) /\ \A q \in (p + 1)..Len(files) : ~IsHarFile(files[q])
      ELSE 0

\* files.find(...): the position of the first file that qualifies, 0 if none
FindHarFile(files) ==
    IF \E p \in 1..Len(files) : IsHarFile(files[p])
      THEN CHOOSE p \in 1..Len(files) :
             IsHarFile(files[p]) /\ \A q \in 1..(p - 1) : ~IsHarFile(files[q])
      ELSE 0

\* lines 69-72
handleDragOver ==
    /\ isDragging' = TRUE
    /\ UNCHANGED <<isProcessing, error, pending, started, harEntries, publishedBy, lastDone>>

\* lines 74-77
handleDragLeave ==
    /\ isDragging' = FALSE
    /\ UNCHANGED <<isProcessing, error, pending, started, harEntries, publishedBy, lastDone>>

\* lines 79-91
handleDrop(files) ==
    /\ isDragging' = FALSE
    /\ IF FindHarFile(files) # 0
         THEN processHARFileStart(files[FindHarFile(files)])
         ELSE /\ error' = "Please drop a valid HAR file"
              /\ UNCHANGED <<isProcessing, pending, started, harEntries, publishedBy,
                             lastDone>>

\* lines 93-98; the input element is rendered only while isProcessing is
\* false (lines 120-147); files is e.target.files
handleFileInput(files) ==
    /\ ~isProcessing
    /\ IF Len(files) > 0
         THEN processHARFileStart(files[1])
         ELSE UNCHANGED <<isProcessing, error, pending, started, harEntries,
                          publishedBy, lastDone>>
    /\ UNCHANGED isDragging

UploaderInit ==
    /\ isDragging = FALSE
    /\ isProcessing = FALSE
    /\ error = Null
    /\ pending = {}
    /\ started = 0
    /\ harEntries = <<>>
    /\ publishedBy = 0
    /\ lastDone = NoDone

(***************************************************************************)
(* Props: the entries and the analyzer's matrix handed to the customizer   *)
(* and to the dependency graph.                                            *)
(***************************************************************************)
\* DependencyMatrix { adjacencyMatrix: number[][], criticalPath: number[] };
\* present is FALSE for a null / undefined prop (dependencyMatrix?.criticalPath)
Matrix(adjacency, path) ==
    [present |-> TRUE, adjacencyMatrix |-> adjacency, criticalPath |-> path]

NoMatrix == [present |-> FALSE, adjacencyMatrix |-> <<>>, criticalPath |-> <<>>]

\* the collections of semantic entries the props can hold
EntryCollections == {Normalize(t).value : t \in {u \in HarTexts : Normalize(u).ok}}

\* sequences over S of length at most n
SeqsUpTo(S, n) == UNION {[1..k -> S] : k \in 0..n}

\* the critical paths the analyzer may report
CriticalPaths == SeqsUpTo(0..(MaxEntries - 1), MaxPathLen)

(***************************************************************************)
(* DependencyGraph.                                                        *)
(***************************************************************************)
\* the inner loop (lines 17-21) over row i
RowEdgesTruthy(row, i) ==
    LET js == SelectSeq(Range(Len(row)), LAMBDA j : row[j + 1] # 0)
    IN [k \in 1..Len(js) |-> [fromIndex |-> i, toIndex |-> js[k]]]

RowEdges(row, i) ==
    LET js == SelectSeq(Range(Len(row)), LAMBDA j : row[j + 1] = 1)
    IN [k \in 1..Len(js) |-> [fromIndex |-> i, toIndex |-> js[k]]]

\* the outer loop (lines 16-22) over the first n rows
RECURSIVE EdgesOfRows(_, _)
EdgesOfRows(adjacency, n) ==
    IF n = 0 THEN <<>>
    ELSE EdgesOfRows(adjacency, n - 1) \o RowEdges(adjacency[n], n - 1)

\* lines 15-23: the function handed to useMemo
Dependencies(adjacency) == EdgesOfRows(adjacency, Len(adjacency))

MemoizedDependenciesByLength(cached, previous, adjacency) ==
    IF Len(adjacency) # Len(previous) THEN Dependencies(adjacency) ELSE cached

\* lines 14, 24: useMemo(..., [matrix.adjacencyMatrix]) on a render after the
\* first: the function runs again when the dependency differs from the one of
\* the previous render.  The arrays of the props are immutable values, so two
\* of them are the same reference only if they hold the same cells, and
\* running the function again on the same cells returns what is cached
MemoizedDependencies(cached, previous, adjacency) ==
    IF adjacency # previous THEN Dependencies(adjacency) ELSE cached

\* lines 56, 66: the indices of the critical-path buttons, in rendering
\* order; the section is rendered when the path is there and not empty
CriticalPathButtons(matrix) ==
    IF matrix.present /\ Len(matrix.criticalPath) > 0
      THEN [k \in 1..Len(matrix.criticalPath) |-> matrix.criticalPath[k]]
      ELSE <<>>

\* new URL(url) for the URLs of the captures: the pathname split at "/", or
\* the TypeError thrown for a text that is not an absolute URL
NewURL(url) ==
    CASE url = "https://a.example/api/items/" -> Returned(<<"", "api", "items", "">>)
      [] url = "https://a.example/api/items/42" -> Returned(<<"", "api", "items", "42">>)
      [] url = "https://a.example" -> Returned(<<"", "">>)
      [] url = "https://a.example/login?next=/home/" -> Returned(<<"", "login">>)
      [] OTHER -> Thrown("Invalid URL")

PopOrSlashNoDefault(segments) == segments[Len(segments)]

\* segments.pop() || '/'
PopOrSlash(segments) ==
    IF segments[Len(segments)] = "" THEN "/" ELSE segments[Len(segments)]

\* entries[index] is not undefined
HasEntry(collection, index) == index + 1 \in 1..Len(collection)

getEntryLabelNoCatch(collection, index) ==
    IF ~HasEntry(collection, index)
      THEN Returned("Request #" \o ToString(index))
      ELSE LET entry == collection[index + 1]
               url == NewURL(entry.request.url)
           IN IF url.ok
                THEN Returned(entry.request.method \o " " \o PopOrSlash(url.value))
                ELSE url

getEntryLabelNoGuard(collection, index) ==
    IF ~HasEntry(collection, index)
      THEN Thrown("Cannot read properties of undefined")
      ELSE LET entry == collection[index + 1]
               url == NewURL(entry.request.url)
           IN IF url.ok
                THEN Returned(entry.request.method \o " " \o PopOrSlash(url.value))
                ELSE Returned(entry.request.method \o " Request #" \o ToString(index))

\* lines 26-35: the label, or the error that leaves the function
getEntryLabel(collection, index) ==
    IF ~HasEntry(collection, index)
      THEN Returned("Request #" \o ToString(index))
      ELSE LET entry == collection[index + 1]
               url == NewURL(entry.request.url)
           IN IF url.ok
                THEN Returned(entry.request.method \o " " \o PopOrSlash(url.value))
                ELSE Returned(entry.request.method \o " Request #" \o ToString(index))

\* entries[index]?.request.url
TitleUrl(collection, index) ==
    IF HasEntry(collection, index) THEN Some(collection[index + 1].request.url) ELSE None

\* `#${index + 1}`
Badge(index) == "#" \o ToString(index + 1)

\* lines 66-82: one node of the critical path
PathNode(collection, index) ==
    [index |-> index,
     title |-> TitleUrl(collection, index),
     badge |-> Badge(index),
     label |-> getEntryLabel(collection, index).value]

\* lines 98-125: one row of the dependency list
DependencyRow(collection, dep) ==
    [fromIndex |-> dep.fromIndex,
     toIndex |-> dep.toIndex,
     fromBadge |-> Badge(dep.fromIndex),
     toBadge |-> Badge(dep.toIndex),
     fromLabel |-> getEntryLabel(collection, dep.fromIndex).value,
     toLabel |-> getEntryLabel(collection, dep.toIndex).value]

\* lines 39-165: the render of the graph; an error thrown by a label leaves
\* the render
Render(collection, matrix, deps) ==
    LET path == CriticalPathButtons(matrix)
        labelled == {path[k] : k \in 1..Len(path)}
                      \cup {deps[k].fromIndex : k \in 1..Len(deps)}
                      \cup {deps[k].toIndex : k \in 1..Len(deps)}
        failed == {index \in labelled : ~getEntryLabel(collection, index).ok}
    IN IF failed # {}
         THEN Thrown(getEntryLabel(collection, CHOOSE index \in failed : TRUE).message)
         ELSE Returned(
                [criticalPath |-> [k \in 1..Len(path) |-> PathNode(collection, path[k])],
                 rows |-> [k \in 1..Len(deps) |-> DependencyRow(collection, deps[k])]])

\* line 69: a click on the critical-path button at position k
clickCriticalPathButton(k) ==
    /\ rendered.ok
    /\ k \in 1..Len(rendered.value.criticalPath)
    /\ lastClicked' = rendered.value.criticalPath[k].index
    /\ UNCHANGED <<dependencies, criticalPathView, rendered, dependencyCount>>

\* lines 101, 118: a click on the source or the target button of the
\* dependency row at position p
clickDependencyButton(p, end) ==
    /\ rendered.ok
    /\ p \in 1..Len(dependencies)
    /\ lastClicked' = IF end = "from" THEN dependencies[p].fromIndex
                                        ELSE dependencies[p].toIndex
    /\ UNCHANGED <<dependencies, criticalPathView, rendered, dependencyCount>>

NoClick == -1

(***************************************************************************)
(* RequestDataTable.                                                       *)
(***************************************************************************)
RowCountTruthy(row) == Cardinality({j \in 1..Len(row) : row[j] # 0})

\* lines 107-111: the inner loop over one row
RowCount(row) == Cardinality({j \in 1..Len(row) : row[j] = 1})

\* lines 106-112: the outer loop over the first n rows
RECURSIVE CountOfRows(_, _)
CountOfRows(adjacency, n) ==
    IF n = 0 THEN 0
    ELSE CountOfRows(adjacency, n - 1) + RowCount(adjacency[n])

\* lines 102-114: the value of the useMemo, computed anew for every new
\* dependencyMatrix prop
DependencyCount(matrix) ==
    IF ~matrix.present THEN 0
    ELSE CountOfRows(matrix.adjacencyMatrix, Len(matrix.adjacencyMatrix))

(***************************************************************************)
(* LoliCodeCustomizer.                                                     *)
(***************************************************************************)
DefaultTimeout == 30
MinTimeout == 1
MaxTimeout == 300
DefaultRetryCount == 0
MinRetryCount == 0
MaxRetryCount == 10

\* e.target.value of a number input: the digits of an integer, or a text that
\* parseInt cannot read ("abc", "")
Typed(n) == [numeric |-> TRUE, n |-> n]
NotANumber == [numeric |-> FALSE, n |-> 0]

InputValues ==
    {NotANumber} \cup {Typed(n) : n \in {-5, -1, 0, 1, 2, 10, 11, 50, 299, 300, 301, 1000}}

\* parseInt(value): None is NaN
ParseInt(value) == IF value.numeric THEN Some(value.n) ELSE None

\* x || d for a number x: NaN and 0 are falsy
OrDefault(x, d) == IF x = None \/ x = Some(0) THEN d ELSE x[1]

Max(a, b) == IF a >= b THEN a ELSE b

Op(name) == [name |-> name, arg |-> NotANumber]
OpWith(name, value) == [name |-> name, arg |-> value]

NoConfig == [made |-> FALSE, selectedIndices |-> <<>>,
             settings |-> [useProxy |-> FALSE, followRedirects |-> FALSE,
                           timeout |-> 0, retryCount |-> 0]]

AvailableIndicesOneBased == [p \in 1..Len(entries) |-> p]

\* lines 37-39: entries.map((_, i) => i)
availableIndices == [p \in 1..Len(entries) |-> p - 1]

\* lines 41-43
handleSelectAll ==
    /\ selectedIndices' = availableIndices
    /\ lastOp' = Op("selectAll")
    /\ generated' = NoConfig
    /\ UNCHANGED <<useProxy, followRedirects, requestTimeout, retryCount, customHeaders>>

\* lines 45-47
handleSelectNone ==
    /\ selectedIndices' = <<>>
    /\ lastOp' = Op("selectNone")
    /\ generated' = NoConfig
    /\ UNCHANGED <<useProxy, followRedirects, requestTimeout, retryCount, customHeaders>>

CriticalPathButtonShownForAnyPath == dependencyMatrix.present

\* line 172: the "Critical Path Only" button is rendered
CriticalPathButtonShown ==
    dependencyMatrix.present /\ Len(dependencyMatrix.criticalPath) > 0

\* ascending copy of a sequence
SortAscending(s) ==
    CHOOSE t \in [1..Len(s) -> {s[k] : k \in 1..Len(s)}] :
        /\ \A k \in 1..(Len(s) - 1) : t[k] <= t[k + 1]
        /\ \A v \in {s[k] : k \in 1..Len(s)} :
             Cardinality({k \in 1..Len(s) : t[k] = v}) = Cardinality({k \in 1..Len(s) : s[k] = v})

SelectionOfCriticalPathSorted == SortAscending(dependencyMatrix.criticalPath)

\* line 51: the argument of setSelectedIndices
SelectionOfCriticalPath == dependencyMatrix.criticalPath

\* lines 49-54, reached through the button of lines 172-181
handleSelectCriticalPath ==
    /\ CriticalPathButtonShown
    /\ IF dependencyMatrix.present
         THEN selectedIndices' = SelectionOfCriticalPath
         ELSE selectedIndices' = selectedIndices
    /\ lastOp' = Op("selectCriticalPath")
    /\ generated' = NoConfig
    /\ UNCHANGED <<useProxy, followRedirects, requestTimeout, retryCount, customHeaders>>

\* line 200
setUseProxy(checked) ==
    /\ useProxy' = checked
    /\ lastOp' = Op("setUseProxy")
    /\ generated' = NoConfig
    /\ UNCHANGED <<selectedIndices, followRedirects, requestTimeout, retryCount, customHeaders>>

\* line 209
setFollowRedirects(checked) ==
    /\ followRedirects' = checked
    /\ lastOp' = Op("setFollowRedirects")
    /\ generated' = NoConfig
    /\ UNCHANGED <<selectedIndices, useProxy, requestTimeout, retryCount, customHeaders>>

TimeoutOfInputUnclamped(value) == OrDefault(ParseInt(value), DefaultTimeout)

\* line 221: Math.max(1, parseInt(e.target.value) || 30)
TimeoutOfInput(value) == Max(MinTimeout, OrDefault(ParseInt(value), DefaultTimeout))

\* line 232: Math.max(0, parseInt(e.target.value) || 0)
RetryCountOfInput(value) == Max(MinRetryCount, OrDefault(ParseInt(value), DefaultRetryCount))

\* lines 218-225: onChange of the timeout input
changeTimeout(value) ==
    /\ requestTimeout' = TimeoutOfInput(value)
    /\ lastOp' = OpWith("setTimeout", value)
    /\ generated' = NoConfig
    /\ UNCHANGED <<selectedIndices, useProxy, followRedirects, retryCount, customHeaders>>

\* lines 229-236: onChange of the retry input
changeRetryCount(value) ==
    /\ retryCount' = RetryCountOfInput(value)
    /\ lastOp' = OpWith("setRetryCount", value)
    /\ generated' = NoConfig
    /\ UNCHANGED <<selectedIndices, useProxy, followRedirects, requestTimeout, customHeaders>>

\* what is typed into a header's name or value input
HeaderTexts == {"", "X-Key", "abc"}

\* line 66: [...prev, { name: '', value: '' }]
HeadersAppended(prev) == Append(prev, [name |-> "", value |-> ""])

\* lines 71-73: the copy of the list with updated[index][field] = value
HeadersUpdated(prev, index, field, value) == [prev EXCEPT ![index + 1][field] = value]

HeadersFilteredByValue(prev, index) == SelectSeq(prev, LAMBDA h : h # prev[index + 1])

\* line 78: prev.filter((_, i) => i !== index)
HeadersFiltered(prev, index) ==
    [p \in 1..(Len(prev) - 1) |-> IF p < index + 1 THEN prev[p] ELSE prev[p + 1]]

HeaderOp(name, index, field, value) ==
    [name |-> name, arg |-> [index |-> index, field |-> field, value |-> value]]

\* lines 65-67, the "+ Add Header" button
addCustomHeader ==
    /\ Len(customHeaders) < MaxHeaders
    /\ customHeaders' = HeadersAppended(customHeaders)
    /\ lastOp' = HeaderOp("addCustomHeader", Len(customHeaders), "", "")
    /\ generated' = NoConfig
    /\ UNCHANGED <<selectedIndices, useProxy, followRedirects, requestTimeout, retryCount>>

\* lines 69-75, reached through the inputs of the header at index (lines
\* 261-276)
updateCustomHeader(index, field, value) ==
    /\ index \in 0..(Len(customHeaders) - 1)
    /\ customHeaders' = HeadersUpdated(customHeaders, index, field, value)
    /\ lastOp' = HeaderOp("updateCustomHeader", index, field, value)
    /\ generated' = NoConfig
    /\ UNCHANGED <<selectedIndices, useProxy, followRedirects, requestTimeout, retryCount>>

\* lines 77-79, reached through the remove button of the header at index
\* (lines 277-284)
removeCustomHeader(index) ==
    /\ index \in 0..(Len(customHeaders) - 1)
    /\ customHeaders' = HeadersFiltered(customHeaders, index)
    /\ lastOp' = HeaderOp("removeCustomHeader", index, "", "")
    /\ generated' = NoConfig
    /\ UNCHANGED <<selectedIndices, useProxy, followRedirects, requestTimeout, retryCount>>

BuildConfigWithHeaders(selection, available, proxy, redirects, timeout, retries) ==
    [made |-> TRUE,
     selectedIndices |-> IF Len(selection) > 0 THEN selection ELSE available,
     settings |-> [useProxy |-> proxy, followRedirects |-> redirects,
                   timeout |-> timeout, retryCount |-> retries],
     customHeaders |-> customHeaders]

\* a callback that closes over the retry count of the first render
BuildConfigStaleRetryCount(selection, available, proxy, redirects, timeout, retries) ==
    [made |-> TRUE,
     selectedIndices |-> IF Len(selection) > 0 THEN selection ELSE available,
     settings |-> [useProxy |-> proxy, followRedirects |-> redirects,
                   timeout |-> timeout, retryCount |-> DefaultRetryCount]]

BuildConfigNoFallback(selection, available, proxy, redirects, timeout, retries) ==
    [made |-> TRUE,
     selectedIndices |-> selection,
     settings |-> [useProxy |-> proxy, followRedirects |-> redirects,
                   timeout |-> timeout, retryCount |-> retries]]

\* lines 115-123: the config object
BuildConfig(selection, available, proxy, redirects, timeout, retries) ==
    [made |-> TRUE,
     selectedIndices |-> IF Len(selection) > 0 THEN selection ELSE available,
     settings |-> [useProxy |-> proxy, followRedirects |-> redirects,
                   timeout |-> timeout, retryCount |-> retries]]

\* lines 114-125: the callback
handleGenerate ==
    /\ generated' = BuildConfig(selectedIndices, availableIndices, useProxy,
                                followRedirects, requestTimeout, retryCount)
    /\ lastOp' = Op("generate")
    /\ UNCHANGED <<selectedIndices, useProxy, followRedirects, requestTimeout,
                   retryCount, customHeaders>>

\* line 293: the disabled attribute of the Generate button
GenerateDisabled == Len(selectedIndices) = 0 /\ Len(availableIndices) > 0

\* lines 290-300: a click on the Generate button
clickGenerate ==
    /\ ~GenerateDisabled
    /\ handleGenerate

\* lines 124, 290-300: a click on the Generate button, and the parent's
\* onGenerate keeping the config it is handed
clickGenerateHanded ==
    /\ clickGenerate
    /\ handed' = generated'

\* the parent renders the customizer and the graph with new entries: the
\* labels and titles of the graph are rendered anew
EntriesReplaced(collection) ==
    /\ entries' = collection
    /\ collection # entries
    /\ lastOp' = Op("propsChanged")
    /\ generated' = NoConfig
    /\ UNCHANGED <<selectedIndices, useProxy, followRedirects, requestTimeout,
                   retryCount, customHeaders>>
    /\ rendered' = Render(collection, dependencyMatrix, dependencies)
    /\ UNCHANGED <<dependencyMatrix, handed, dependencies, criticalPathView, lastClicked,
                   dependencyCount>>

\* the parent renders the customizer, the graph and the table with a new
\* matrix: the useMemo of the edge list and that of the table's count run
\* again and the critical path is rendered anew
MatrixReplaced(matrix) ==
    /\ dependencyMatrix' = matrix
    /\ matrix # dependencyMatrix
    /\ dependencies' = MemoizedDependencies(dependencies, dependencyMatrix.adjacencyMatrix,
                                             matrix.adjacencyMatrix)
    /\ criticalPathView' = CriticalPathButtons(matrix)
    /\ rendered' = Render(entries, matrix, dependencies')
    /\ dependencyCount' = DependencyCount(matrix)
    /\ lastOp' = Op("propsChanged")
    /\ generated' = NoConfig
    /\ UNCHANGED <<selectedIndices, useProxy, followRedirects, requestTimeout,
                   retryCount, customHeaders>>
    /\ UNCHANGED <<entries, handed, lastClicked>>

\* lines 26-31
CustomizerInit ==
    /\ selectedIndices = <<>>
    /\ useProxy = TRUE
    /\ followRedirects = TRUE
    /\ requestTimeout = DefaultTimeout
    /\ retryCount = DefaultRetryCount
    /\ customHeaders = <<>>
    /\ generated = NoConfig
    /\ lastOp = Op("init")

\* the graph and the table as first rendered with the matrix prop
GraphInit ==
    /\ dependencies = Dependencies(dependencyMatrix.adjacencyMatrix)
    /\ criticalPathView = CriticalPathButtons(dependencyMatrix)
    /\ rendered = Render(entries, dependencyMatrix, dependencies)
    /\ lastClicked = NoClick
    /\ dependencyCount = DependencyCount(dependencyMatrix)

(***************************************************************************)
(* The uploader on its own: the props and the other components stay as     *)
(* constructed.                                                            *)
(***************************************************************************)
Init ==
    /\ UploaderInit
    /\ entries = <<>>
    /\ dependencyMatrix = NoMatrix
    /\ handed = NoConfig
    /\ CustomizerInit
    /\ GraphInit

Next ==
    \/ /\ handleDragOver
       /\ UNCHANGED <<propVars, customizerVars, graphVars>>
    \/ /\ handleDragLeave
       /\ UNCHANGED <<propVars, customizerVars, graphVars>>
    \/ /\ \E files \in DropLists : handleDrop(files)
       /\ UNCHANGED <<propVars, customizerVars, graphVars>>
    \/ /\ \E files \in {<<>>} \cup {<<HarFile(t)>> : t \in Texts} : handleFileInput(files)
       /\ UNCHANGED <<propVars, customizerVars, graphVars>>
    \/ /\ \E call \in pending : processHARFileResume(call)
       /\ UNCHANGED <<propVars, customizerVars, graphVars>>

Spec == Init /\ [][Next]_vars

(***************************************************************************)
(* The selection operations of the customizer, with the parent replacing   *)
(* the entries and the matrix (its critical path) in between.              *)
(***************************************************************************)
\* the n x n matrix of zeros
ZeroAdjacency(n) == [i \in 1..n |-> [j \in 1..n |-> 0]]

PathMatrices == {NoMatrix} \cup {Matrix(ZeroAdjacency(MaxEntries), path) : path \in CriticalPaths}

SelectionInit ==
    /\ UploaderInit
    /\ entries \in EntryCollections
    /\ dependencyMatrix \in PathMatrices
    /\ handed = NoConfig
    /\ CustomizerInit
    /\ GraphInit

SelectionNext ==
    \/ /\ handleSelectAll
       /\ UNCHANGED <<uploaderVars, propVars, graphVars>>
    \/ /\ handleSelectNone
       /\ UNCHANGED <<uploaderVars, propVars, graphVars>>
    \/ /\ handleSelectCriticalPath
       /\ UNCHANGED <<uploaderVars, propVars, graphVars>>
    \/ /\ clickGenerate
       /\ UNCHANGED <<uploaderVars, propVars, graphVars>>
    \/ /\ \E collection \in EntryCollections : EntriesReplaced(collection)
       /\ UNCHANGED uploaderVars
    \/ /\ \E matrix \in PathMatrices : MatrixReplaced(matrix)
       /\ UNCHANGED uploaderVars

SelectionSpec == SelectionInit /\ [][SelectionNext]_vars

(***************************************************************************)
(* The settings operations of the customizer.                              *)
(***************************************************************************)
SettingsInit ==
    /\ UploaderInit
    /\ entries \in EntryCollections
    /\ dependencyMatrix = NoMatrix
    /\ handed = NoConfig
    /\ CustomizerInit
    /\ GraphInit

SettingsNext ==
    \/ /\ \E checked \in BOOLEAN : setUseProxy(checked)
       /\ UNCHANGED <<uploaderVars, propVars, graphVars>>
    \/ /\ \E checked \in BOOLEAN : setFollowRedirects(checked)
       /\ UNCHANGED <<uploaderVars, propVars, graphVars>>
    \/ /\ \E value \in InputValues : changeTimeout(value)
       /\ UNCHANGED <<uploaderVars, propVars, graphVars>>
    \/ /\ \E value \in InputValues : changeRetryCount(value)
       /\ UNCHANGED <<uploaderVars, propVars, graphVars>>
    \/ /\ handleSelectAll
       /\ UNCHANGED <<uploaderVars, propVars, graphVars>>
    \/ /\ handleSelectNone
       /\ UNCHANGED <<uploaderVars, propVars, graphVars>>
    \/ /\ clickGenerate
       /\ UNCHANGED <<uploaderVars, propVars, graphVars>>

SettingsSpec == SettingsInit /\ [][SettingsNext]_vars

(***************************************************************************)
(* The custom-header operations of the customizer.                         *)
(***************************************************************************)
HeadersInit ==
    /\ UploaderInit
    /\ entries \in EntryCollections
    /\ dependencyMatrix = NoMatrix
    /\ handed = NoConfig
    /\ CustomizerInit
    /\ GraphInit

HeadersNext ==
    \/ /\ addCustomHeader
       /\ UNCHANGED <<uploaderVars, propVars, graphVars>>
    \/ /\ \E index \in 0..(Len(customHeaders) - 1), field \in {"name", "value"},
             value \in HeaderTexts : updateCustomHeader(index, field, value)
       /\ UNCHANGED <<uploaderVars, propVars, graphVars>>
    \/ /\ \E index \in 0..(Len(customHeaders) - 1) : removeCustomHeader(index)
       /\ UNCHANGED <<uploaderVars, propVars, graphVars>>
    \/ /\ handleSelectAll
       /\ UNCHANGED <<uploaderVars, propVars, graphVars>>
    \/ /\ clickGenerate
       /\ UNCHANGED <<uploaderVars, propVars, graphVars>>

HeadersSpec == HeadersInit /\ [][HeadersNext]_vars

(***************************************************************************)
(* The customizer and the parent that keeps the config it was handed.      *)
(***************************************************************************)
HandoverInputs == {NotANumber, Typed(10)}

HandoverInit ==
    /\ UploaderInit
    /\ entries \in EntryCollections
    /\ dependencyMatrix = NoMatrix
    /\ handed = NoConfig
    /\ CustomizerInit
    /\ GraphInit

HandoverNext ==
    \/ /\ \E checked \in BOOLEAN : setUseProxy(checked)
       /\ UNCHANGED <<uploaderVars, propVars, graphVars>>
    \/ /\ \E checked \in BOOLEAN : setFollowRedirects(checked)
       /\ UNCHANGED <<uploaderVars, propVars, graphVars>>
    \/ /\ \E value \in HandoverInputs : changeTimeout(value)
       /\ UNCHANGED <<uploaderVars, propVars, graphVars>>
    \/ /\ \E value \in HandoverInputs : changeRetryCount(value)
       /\ UNCHANGED <<uploaderVars, propVars, graphVars>>
    \/ /\ handleSelectAll
       /\ UNCHANGED <<uploaderVars, propVars, graphVars>>
    \/ /\ handleSelectNone
       /\ UNCHANGED <<uploaderVars, propVars, graphVars>>
    \/ /\ addCustomHeader
       /\ UNCHANGED <<uploaderVars, propVars, graphVars>>
    \/ /\ clickGenerateHanded
       /\ UNCHANGED <<uploaderVars, entries, dependencyMatrix, graphVars>>

HandoverSpec == HandoverInit /\ [][HandoverNext]_vars

(***************************************************************************)
(* handleGenerate as a function of the builder's state: the callback       *)
(* applied in every state the builder can hold, the states in which the    *)
(* Generate button is disabled included.                                   *)
(***************************************************************************)
BuildInit ==
    /\ UploaderInit
    /\ entries \in EntryCollections
    /\ dependencyMatrix = NoMatrix
    /\ handed = NoConfig
    /\ selectedIndices \in CriticalPaths \cup {Range(n) : n \in 0..MaxEntries}
    /\ useProxy = TRUE
    /\ followRedirects = TRUE
    /\ requestTimeout \in {TimeoutOfInput(value) : value \in InputValues}
    /\ retryCount = DefaultRetryCount
    /\ customHeaders = <<>>
    /\ generated = NoConfig
    /\ lastOp = Op("init")
    /\ GraphInit

BuildNext ==
    /\ handleGenerate
    /\ UNCHANGED <<uploaderVars, propVars, graphVars>>

BuildSpec == BuildInit /\ [][BuildNext]_vars

(***************************************************************************)
(* The dependency graph, with the parent replacing the matrix (its         *)
(* adjacency) in between.                                                  *)
(***************************************************************************)
\* the values a cell of the analyzer's matrix may hold
CellValues == {0, 1, 2}

\* the matrices that differ from the given one in one cell, and the zero
\* matrices of every dimension
AdjacencyEdits(matrix) ==
    LET adj == matrix.adjacencyMatrix
        n == Len(adj)
    IN {Matrix([adj EXCEPT ![i][j] = v], matrix.criticalPath) :
            i \in 1..n, j \in 1..n, v \in CellValues}
         \cup {Matrix(ZeroAdjacency(d), matrix.criticalPath) : d \in 0..MaxDim}

GraphSpecInit ==
    /\ UploaderInit
    /\ entries = <<>>
    /\ dependencyMatrix \in {Matrix(ZeroAdjacency(d), <<>>) : d \in 0..MaxDim}
    /\ handed = NoConfig
    /\ CustomizerInit
    /\ GraphInit

GraphNext ==
    \/ /\ \E matrix \in AdjacencyEdits(dependencyMatrix) : MatrixReplaced(matrix)
       /\ UNCHANGED uploaderVars
    \/ /\ \E p \in 1..Len(dependencies), end \in {"from", "to"} : clickDependencyButton(p, end)
       /\ UNCHANGED <<uploaderVars, propVars, customizerVars>>

GraphSpec == GraphSpecInit /\ [][GraphNext]_vars

(***************************************************************************)
(* The request table next to the dependency graph, both handed the same    *)
(* matrix; the table is also rendered when there is no matrix.             *)
(***************************************************************************)
\* the critical paths of the matrices the table is handed
TablePaths == {<<>>, <<0>>}

TableInit ==
    /\ UploaderInit
    /\ entries = <<>>
    /\ dependencyMatrix \in {NoMatrix}
          \cup {Matrix(ZeroAdjacency(d), path) : d \in 0..MaxDim, path \in TablePaths}
    /\ handed = NoConfig
    /\ CustomizerInit
    /\ GraphInit

TableNext ==
    /\ \E matrix \in AdjacencyEdits(dependencyMatrix) \cup {NoMatrix} : MatrixReplaced(matrix)
    /\ UNCHANGED uploaderVars

TableSpec == TableInit /\ [][TableNext]_vars

(***************************************************************************)
(* The labels of the graph over captures whose requests have URLs with and *)
(* without a last path segment.                                            *)
(***************************************************************************)
LabelUrls ==
    {"https://a.example/api/items/", "https://a.example/api/items/42",
     "https://a.example", "https://a.example/login?next=/home/", "not a url"}

\* the raw entry with the URL of its request replaced
RawWithUrl(raw, url) ==
    [raw EXCEPT !.request = Some([raw.request[1] EXCEPT !.url = url])]

\* a capture that alternates the two good entries, with the given URLs
LabelRaw(v, urls) ==
    [p \in 1..Len(urls) |-> RawWithUrl(Good[((p - 1 + v) % Len(Good)) + 1], urls[p])]

\* the collections of semantic entries published for these captures
LabelCollections ==
    {Normalize(Text(TRUE, "har", LabelRaw(v, urls))).value :
        v \in 0..(Len(Good) - 1), urls \in SeqsUpTo(LabelUrls, MaxEntries)}

\* no critical path, or the critical path over every index an entry can have
LabelMatrices ==
    {Matrix(ZeroAdjacency(0), <<>>),
     Matrix(ZeroAdjacency(0), [k \in 1..MaxEntries |-> k - 1])}

LabelInit ==
    /\ UploaderInit
    /\ entries \in LabelCollections
    /\ dependencyMatrix \in LabelMatrices
    /\ handed = NoConfig
    /\ CustomizerInit
    /\ GraphInit

LabelNext ==
    \/ /\ \E collection \in LabelCollections : EntriesReplaced(collection)
       /\ UNCHANGED uploaderVars
    \/ /\ \E matrix \in LabelMatrices : MatrixReplaced(matrix)
       /\ UNCHANGED uploaderVars
    \/ /\ \E k \in 1..Len(criticalPathView) : clickCriticalPathButton(k)
       /\ UNCHANGED <<uploaderVars, propVars, customizerVars>>

LabelSpec == LabelInit /\ [][LabelNext]_vars

(***************************************************************************)
(* The rendered graph: labels, badges and clicks, with the parent          *)
(* replacing the entries (a shorter collection leaves the matrix pointing  *)
(* at entries that are gone) and the matrix in between.                    *)
(***************************************************************************)
\* the n x n matrix of ones
FullAdjacency(n) == [i \in 1..n |-> [j \in 1..n |-> 1]]

\* the n x n matrix whose only ones are the cells [i][i + 1]
ChainAdjacency(n) == [i \in 1..n |-> [j \in 1..n |-> IF j = i + 1 THEN 1 ELSE 0]]

RenderAdjacencies ==
    {ZeroAdjacency(0), ZeroAdjacency(MaxDim), ChainAdjacency(MaxDim), FullAdjacency(MaxDim)}

RenderMatrices ==
    {Matrix(adjacency, path) : adjacency \in RenderAdjacencies, path \in CriticalPaths}

\* the matrices that differ from the given one in the adjacency or in the
\* critical path
RenderEdits(matrix) ==
    {Matrix(adjacency, matrix.criticalPath) : adjacency \in RenderAdjacencies}
      \cup {Matrix(matrix.adjacencyMatrix, path) : path \in CriticalPaths}

RenderInit ==
    /\ UploaderInit
    /\ entries \in EntryCollections
    /\ dependencyMatrix \in RenderMatrices
    /\ handed = NoConfig
    /\ CustomizerInit
    /\ GraphInit

RenderNext ==
    \/ /\ \E collection \in EntryCollections : EntriesReplaced(collection)
       /\ UNCHANGED uploaderVars
    \/ /\ \E matrix \in RenderEdits(dependencyMatrix) : MatrixReplaced(matrix)
       /\ UNCHANGED uploaderVars
    \/ /\ \E k \in 1..Len(criticalPathView) : clickCriticalPathButton(k)
       /\ UNCHANGED <<uploaderVars, propVars, customizerVars>>
    \/ /\ \E p \in 1..Len(dependencies), end \in {"from", "to"} : clickDependencyButton(p, end)
       /\ UNCHANGED <<uploaderVars, propVars, customizerVars>>

RenderSpec == RenderInit /\ [][RenderNext]_vars

(***************************************************************************)
(* Properties of the uploader.                                             *)
(***************************************************************************)
\* a HAR text as the format defines it: JSON with log.entries an array whose
\* entries each hold a request and a response
ValidHar(text) ==
    /\ text.json
    /\ text.shape = "har"
    /\ \A p \in 1..Len(text.entries) :
         text.entries[p].request # None /\ text.entries[p].response # None

\* C1: an upload that started earlier never overwrites the entries published
\* by an upload that started later (calls are numbered in start order, so the
\* number of the publishing call never decreases).
C1_LaterStartedWins == [][publishedBy' >= publishedBy]_vars

\* C2: once a call whose text is a valid HAR with N entries has resumed, N
\* semantic entries are published, in the input order, the entry at index i
\* carrying the identifier entry-i, all identifiers distinct.
C2_NormalizesAllInOrder ==
    (lastDone.id # 0 /\ ValidHar(lastDone.text)) =>
        LET raw == lastDone.text.entries
        IN /\ lastDone.dispatched
           /\ Len(harEntries) = Len(raw)
           /\ \A p \in 1..Len(raw) :
                /\ harEntries[p].entryId = "entry-" \o ToString(p - 1)
                /\ harEntries[p].request.method = raw[p].request[1].method
                /\ harEntries[p].request.url = raw[p].request[1].url
                /\ harEntries[p].response.status = raw[p].response[1].status
           /\ \A p, q \in 1..Len(harEntries) :
                p # q => harEntries[p].entryId # harEntries[q].entryId

C2_Witness ==
    /\ lastDone.id # 0
    /\ ValidHar(lastDone.text)
    /\ Len(lastDone.text.entries) >= 2
    /\ harEntries[1].entryId = "entry-0"
    /\ harEntries[2].entryId = "entry-1"
    /\ harEntries[1].request.method # harEntries[2].request.method

\* C3: a call whose text is not a valid HAR (not JSON, no log, no log.entries,
\* or an entry whose mapping fails) ends with an error message, dispatches
\* nothing, and leaves the published entries as they were.
C3_FailureIsAllOrNothing ==
    [][(lastDone'.id # lastDone.id /\ ~ValidHar(lastDone'.text)) =>
          /\ ~lastDone'.dispatched
          /\ error' \notin {Null, ""}
          /\ harEntries' = harEntries
          /\ publishedBy' = publishedBy]_vars

\* a file of two entries whose second entry fails to map has been processed
\* after another file's entries were published
C3_Witness ==
    /\ lastDone.id # 0
    /\ Len(lastDone.text.entries) = 2
    /\ lastDone.text.entries[1].request # None
    /\ lastDone.text.entries[2].request = None
    /\ ~lastDone.dispatched
    /\ error = "Cannot read properties of undefined"
    /\ Len(harEntries) = 1
    /\ pending = {}

\* C21: in the entries a call has published, the request body is present
\* exactly when the raw request has post-data and the response body exactly
\* when the raw response has content; headers, cookies and query-string
\* arrays that are missing are empty lists and those that are there are
\* copied; tokens and dependencies are empty.
C21_BodiesAndDefaults ==
    (lastDone.id # 0 /\ lastDone.dispatched) =>
        LET raw == lastDone.text.entries
        IN /\ Len(harEntries) = Len(raw)
           /\ \A p \in 1..Len(raw) :
                LET req == raw[p].request[1]
                    resp == raw[p].response[1]
                    out == harEntries[p]
                IN /\ (out.request.body # None) <=> (req.postData # None)
                   /\ (out.response.body # None) <=> (resp.content # None)
                   /\ req.postData # None => out.request.body[1].text = req.postData[1].text
                   /\ resp.content # None => out.response.body[1].text = resp.content[1].text
                   /\ out.request.headers = IF req.headers = None THEN <<>> ELSE req.headers[1]
                   /\ out.request.cookies = IF req.cookies = None THEN <<>> ELSE req.cookies[1]
                   /\ out.request.queryString =
                        IF req.queryString = None THEN <<>> ELSE req.queryString[1]
                   /\ out.response.headers = IF resp.headers = None THEN <<>> ELSE resp.headers[1]
                   /\ out.response.cookies = IF resp.cookies = None THEN <<>> ELSE resp.cookies[1]
                   /\ out.tokens = <<>>
                   /\ out.dependencies = <<>>

\* a GET without post-data whose response has content, followed by a POST
\* with post-data whose response has no content
C21_Witness ==
    /\ lastDone.dispatched
    /\ Len(harEntries) = 2
    /\ harEntries[1].request.body = None
    /\ harEntries[1].response.body # None
    /\ harEntries[1].request.cookies = <<>>
    /\ harEntries[2].request.body # None
    /\ harEntries[2].response.body = None
    /\ harEntries[2].request.headers = <<>>

\* C24: isProcessing is true in every state in which a processHARFile call
\* is pending and false once none is.
C24_ProcessingWhilePending == isProcessing <=> (pending # {})

\* C25: starting an upload clears the error, and while the most recently
\* started upload is the one whose entries are published, no upload's error
\* is displayed (the message of a refused drop is not an upload's).
C25_ErrorOfLatestUpload ==
    /\ [][started' # started => error' = Null]_vars
    /\ []((started > 0 /\ publishedBy = started) =>
            error \in {Null, "Please drop a valid HAR file"})

\* the first file of a drop list that has a ".har" name or the
\* application/json type, as a set of at most one file
FirstQualifying(files) ==
    {files[p] : p \in {q \in 1..Len(files) :
                         /\ files[q].nameHar \/ files[q].typeJson
                         /\ \A r \in 1..(q - 1) : ~(files[r].nameHar \/ files[r].typeJson)}}

\* C27: a drop starts at most one call, for the first dropped file that
\* qualifies; when no dropped file qualifies it sets the error "Please drop a
\* valid HAR file", starts no call and leaves the published entries as they
\* were.
C27_DropTakesFirstQualifying ==
    [][\A files \in DropLists :
          handleDrop(files) =>
              IF FirstQualifying(files) = {}
                THEN /\ error' = "Please drop a valid HAR file"
                     /\ started' = started
                     /\ pending' = pending
                     /\ harEntries' = harEntries
                ELSE /\ started' = started + 1
                     /\ \E file \in FirstQualifying(files) :
                          pending' = pending \cup {[id |-> started', text |-> file.text]}
                     /\ harEntries' = harEntries]_vars

\* a drop without a qualifying file has been refused after the one call
\* started so far published its entries
C27_Witness ==
    /\ error = "Please drop a valid HAR file"
    /\ Len(harEntries) > 0
    /\ started = 1
    /\ pending = {}

\* C17: when a call dispatches, the published collection becomes the sequence
\* normalized from that call's file and nothing else: as many entries as the
\* file holds, each at its position with the identifier of that position,
\* whatever was published before and whatever uploads succeeded or failed
\* before.
C17_PublishReplacesInFull ==
    [][(lastDone'.id # lastDone.id /\ lastDone'.dispatched) =>
          LET raw == lastDone'.text.entries
          IN /\ publishedBy' = lastDone'.id
             /\ Len(harEntries') = Len(raw)
             /\ \A p \in 1..Len(raw) :
                  /\ harEntries'[p].entryId = "entry-" \o ToString(p - 1)
                  /\ harEntries'[p].request.method = raw[p].request[1].method
                  /\ harEntries'[p].request.url = raw[p].request[1].url
                  /\ harEntries'[p].timestamp = raw[p].startedDateTime]_vars

\* two uploads were started, the second one published its entries, and then
\* the first one published a collection of one entry in their place
C17_Witness ==
    /\ started = 2
    /\ pending = {}
    /\ lastDone.id = 1
    /\ lastDone.dispatched
    /\ publishedBy = 1
    /\ error = Null
    /\ Len(harEntries) = 1

\* C14: at most one processHARFile call is suspended at its read at any
\* time.
C14_AtMostOneInFlight == Cardinality(pending) <= 1

(***************************************************************************)
(* Properties of the customizer.                                           *)
(***************************************************************************)
\* C4: a config built while the selection is empty and entries exist selects
\* the full index range 0 .. N-1 in ascending order, and a config's
\* selectedIndices is empty only when there are no entries.
C4_EmptySelectionMeansAll ==
    generated.made =>
        /\ (Len(selectedIndices) = 0 /\ Len(entries) > 0) =>
              /\ Len(generated.selectedIndices) = Len(entries)
              /\ \A p \in 1..Len(entries) : generated.selectedIndices[p] = p - 1
        /\ Len(generated.selectedIndices) = 0 => Len(entries) = 0

C4_Witness ==
    /\ generated.made
    /\ selectedIndices = <<>>
    /\ Len(entries) = 2
    /\ generated.selectedIndices = <<0, 1>>

\* C5: the stored timeout, and the timeout of a generated config, lies in
\* [1, 300]; an input of 1000 stores 300.
C5_TimeoutWithinRange ==
    /\ requestTimeout \in MinTimeout..MaxTimeout
    /\ generated.made => generated.settings.timeout \in MinTimeout..MaxTimeout
    /\ (lastOp = OpWith("setTimeout", Typed(1000))) => requestTimeout = MaxTimeout

\* C6 as stated: a set-timeout whose input is not a number, or is -5, stores
\* the default 30.
C6_InvalidTimeoutStoresDefault ==
    (lastOp.name = "setTimeout" /\ (~lastOp.arg.numeric \/ lastOp.arg.n = -5)) =>
        requestTimeout = DefaultTimeout

\* C6 as amended: a set-timeout whose input is not a number stores the
\* default 30; one whose input is negative, such as -5, stores the lower
\* bound 1.
C6_NonNumericDefaultsNegativeClamps ==
    lastOp.name = "setTimeout" =>
        /\ ~lastOp.arg.numeric => requestTimeout = 30
        /\ (lastOp.arg.numeric /\ lastOp.arg.n < 0) => requestTimeout = 1

C6_Witness ==
    /\ lastOp = OpWith("setTimeout", Typed(-5))
    /\ requestTimeout = 1

\* C7: the stored retryCount lies in [0, 10]; an input of 50 stores 10, an
\* input of -1 or one that is not a number stores 0.
C7_RetryCountWithinRange ==
    /\ retryCount \in MinRetryCount..MaxRetryCount
    /\ (lastOp = OpWith("setRetryCount", Typed(50))) => retryCount = MaxRetryCount
    /\ (lastOp.name = "setRetryCount" /\ (~lastOp.arg.numeric \/ lastOp.arg.n = -1)) =>
          retryCount = 0

\* C9: "select critical path" sets the selection to the sequence
\* matrix.criticalPath as it is, the critical-path view shows that sequence in
\* that order, and a config generated right after carries it as
\* selectedIndices.
C9_CriticalPathSelectedAsIs ==
    /\ [](lastOp.name = "selectCriticalPath" =>
            selectedIndices = dependencyMatrix.criticalPath)
    /\ [](dependencyMatrix.present => criticalPathView = dependencyMatrix.criticalPath)
    /\ [][(lastOp.name = "selectCriticalPath" /\ lastOp'.name = "generate") =>
            (generated'.made /\ generated'.selectedIndices = dependencyMatrix.criticalPath)]_vars

\* a config generated from the selected critical path [1, 0]
C9_Witness ==
    /\ generated.made
    /\ generated.selectedIndices = <<1, 0>>
    /\ dependencyMatrix.criticalPath = <<1, 0>>
    /\ criticalPathView = <<1, 0>>

\* C10: "select all" over N entries sets the selection to 0 .. N-1 in
\* ascending order, "select none" sets it to the empty sequence.
C10_SelectAllAndNone ==
    /\ lastOp.name = "selectAll" =>
          /\ Len(selectedIndices) = Len(entries)
          /\ \A p \in 1..Len(entries) : selectedIndices[p] = p - 1
    /\ lastOp.name = "selectNone" => selectedIndices = <<>>

C10_Witness ==
    /\ lastOp.name = "selectAll"
    /\ Len(entries) = 2
    /\ selectedIndices = <<0, 1>>

\* C22: a generation hands over a new config whose settings are the builder's
\* useProxy, followRedirects, timeout and retryCount of that moment and
\* leaves the builder's selection, settings and custom headers as they were;
\* no later operation of the builder changes the config that was handed over.
C22_ConfigIsFreshAndDetached ==
    /\ [][generated'.made =>
            /\ handed' = generated'
            /\ generated'.settings = [useProxy |-> useProxy,
                                     followRedirects |-> followRedirects,
                                     timeout |-> requestTimeout,
                                     retryCount |-> retryCount]
            /\ UNCHANGED <<selectedIndices, useProxy, followRedirects, requestTimeout,
                           retryCount, customHeaders>>]_vars
    /\ [][~generated'.made => handed' = handed]_vars

\* a config was handed over with timeout 10 and retry count 10, and the
\* builder, which holds a custom header, has since been set back to 30 and 0
C22_Witness ==
    /\ handed.made
    /\ handed.settings.timeout = 10
    /\ handed.settings.retryCount = 10
    /\ ~handed.settings.useProxy
    /\ requestTimeout = 30
    /\ retryCount = 0
    /\ Len(customHeaders) > 0
    /\ ~generated.made

\* C23: every index in the selectedIndices of a generated config is an index
\* of the current entries.
C23_GeneratedIndicesAreValid ==
    generated.made =>
        \A p \in 1..Len(generated.selectedIndices) :
            generated.selectedIndices[p] \in 0..(Len(entries) - 1)

\* C19: while the critical path is empty or absent "select critical path"
\* cannot be invoked, and no invocation of it leaves the selection empty.
C19_CriticalPathOnlyWhenNonEmpty ==
    /\ []((~dependencyMatrix.present \/ Len(dependencyMatrix.criticalPath) = 0) =>
            ~ENABLED handleSelectCriticalPath)
    /\ [][lastOp'.name = "selectCriticalPath" =>
            /\ Len(dependencyMatrix.criticalPath) > 0
            /\ Len(selectedIndices') > 0]_vars

\* a selection is held and the matrix now reports an empty critical path
C19_Witness ==
    /\ Len(selectedIndices) > 0
    /\ dependencyMatrix.present
    /\ dependencyMatrix.criticalPath = <<>>
    /\ lastOp.name = "propsChanged"

\* C13: in every state of the customizer a click on Generate is accepted and
\* hands a config to onGenerate.
C13_GenerateNeverBlocked == ENABLED clickGenerate

C18_HeaderOperationsByPosition ==
    [][/\ lastOp'.name = "addCustomHeader" =>
            /\ Len(customHeaders') = Len(customHeaders) + 1
            /\ customHeaders'[Len(customHeaders')] = [name |-> "", value |-> ""]
            /\ \A q \in 1..Len(customHeaders) : customHeaders'[q] = customHeaders[q]
       /\ lastOp'.name = "updateCustomHeader" =>
            LET p == lastOp'.arg.index + 1
                field == lastOp'.arg.field
                other == IF field = "name" THEN "value" ELSE "name"
            IN /\ Len(customHeaders') = Len(customHeaders)
               /\ customHeaders'[p][field] = lastOp'.arg.value
               /\ customHeaders'[p][other] = customHeaders[p][other]
               /\ \A q \in 1..Len(customHeaders) : q # p => customHeaders'[q] = customHeaders[q]
       /\ lastOp'.name = "removeCustomHeader" =>
            LET p == lastOp'.arg.index + 1
            IN /\ Len(customHeaders') = Len(customHeaders) - 1
               /\ \A q \in 1..(p - 1) : customHeaders'[q] = customHeaders[q]
               /\ \A q \in p..Len(customHeaders') : customHeaders'[q] = customHeaders[q + 1]
      ]_vars

\* the first of two headers has been removed and the second, filled in, is
\* what is left
C18_Witness ==
    /\ lastOp.name = "removeCustomHeader"
    /\ lastOp.arg.index = 0
    /\ customHeaders = <<[name |-> "X-Key", value |-> "abc"]>>

(***************************************************************************)
(* Properties of the dependency graph.                                     *)
(***************************************************************************)
\* C8: the edge list holds exactly one edge {fromIndex: i, toIndex: j} for
\* each cell [i][j] equal to 1, none for any other cell, in row-major order.
C8_EdgesRowMajor ==
    LET adj == dependencyMatrix.adjacencyMatrix
        n == Len(dependencies)
    IN /\ \A i \in 1..Len(adj) : \A j \in 1..Len(adj[i]) :
            Cardinality({k \in 1..n :
                dependencies[k] = [fromIndex |-> i - 1, toIndex |-> j - 1]})
              = IF adj[i][j] = 1 THEN 1 ELSE 0
       /\ \A k \in 1..n :
            /\ dependencies[k].fromIndex \in 0..(Len(adj) - 1)
            /\ dependencies[k].toIndex \in 0..(Len(adj[dependencies[k].fromIndex + 1]) - 1)
       /\ \A k \in 1..n : \A l \in (k + 1)..n :
            \/ dependencies[k].fromIndex < dependencies[l].fromIndex
            \/ /\ dependencies[k].fromIndex = dependencies[l].fromIndex
               /\ dependencies[k].toIndex < dependencies[l].toIndex

\* a matrix with two cells equal to 1 in one row, one in another row, and a
\* cell that is neither 0 nor 1
C8_Witness ==
    /\ dependencyMatrix.adjacencyMatrix = <<<<1, 1>>, <<1, 2>>>>
    /\ Len(dependencies) = 3

\* the labels the last render shows next to the index each belongs to: those
\* of the critical-path nodes and of both ends of the dependency rows
ShownLabels ==
    {<<rendered.value.criticalPath[k].index, rendered.value.criticalPath[k].label>> :
        k \in 1..Len(rendered.value.criticalPath)}
      \cup {<<rendered.value.rows[k].fromIndex, rendered.value.rows[k].fromLabel>> :
              k \in 1..Len(rendered.value.rows)}
      \cup {<<rendered.value.rows[k].toIndex, rendered.value.rows[k].toLabel>> :
              k \in 1..Len(rendered.value.rows)}

\* C11: the label never raises, for any entries and any index, those just
\* outside the entries included, so no render fails on a label; the label
\* shown for an entry whose URL is "not a url" is "<METHOD> Request #<index>"
\* with the index the label was asked for.
C11_LabelNeverRaises ==
    /\ rendered.ok
    /\ \A index \in -1..Len(entries) : getEntryLabel(entries, index).ok
    /\ \A shown \in ShownLabels :
         LET index == shown[1]
         IN (HasEntry(entries, index) /\ entries[index + 1].request.url = "not a url") =>
               shown[2] = entries[index + 1].request.method \o " Request #" \o ToString(index)

\* the critical path [1] over a GET and a POST whose URL is "not a url"
C11_Witness ==
    /\ rendered.ok
    /\ Len(entries) = 2
    /\ entries[2].request.url = "not a url"
    /\ dependencyMatrix.criticalPath = <<1>>
    /\ rendered.value.criticalPath[1].label = "POST Request #1"

\* C15: after any sequence of matrix changes the edge list in use is the one
\* derived afresh from the current adjacency matrix: it has one edge per cell
\* equal to 1, and the dependency rows rendered are those edges.
C15_MemoNeverStale ==
    LET adj == dependencyMatrix.adjacencyMatrix
        ones == {<<i, j>> \in (1..Len(adj)) \X (1..Len(adj)) : adj[i][j] = 1}
    IN /\ dependencies = Dependencies(adj)
       /\ Len(dependencies) = Cardinality(ones)
       /\ \A cell \in ones :
            \E k \in 1..Len(dependencies) :
                dependencies[k] = [fromIndex |-> cell[1] - 1, toIndex |-> cell[2] - 1]
       /\ rendered.ok => Len(rendered.value.rows) = Len(dependencies)

\* the matrix has been replaced and now holds the single edge 0 -> 1 along
\* with a critical path
C15_Witness ==
    /\ lastOp.name = "propsChanged"
    /\ dependencyMatrix.adjacencyMatrix = <<<<0, 1>>, <<0, 0>>>>
    /\ dependencyMatrix.criticalPath = <<1, 0>>
    /\ dependencies = <<[fromIndex |-> 0, toIndex |-> 1]>>

\* the indices the matrix refers to: the critical path's and the edges' ends
ReferencedIndices ==
    {criticalPathView[k] : k \in 1..Len(criticalPathView)}
      \cup {dependencies[k].fromIndex : k \in 1..Len(dependencies)}
      \cup {dependencies[k].toIndex : k \in 1..Len(dependencies)}

C20_FallbackNumberIsDisplayNumber ==
    rendered.ok =>
        \A k \in 1..Len(rendered.value.criticalPath) :
            LET node == rendered.value.criticalPath[k]
            IN (HasEntry(entries, node.index)
                  /\ entries[node.index + 1].request.url = "not a url") =>
                 node.label = entries[node.index + 1].request.method \o " Request " \o node.badge

(***************************************************************************)
(* Properties of the request table.                                        *)
(***************************************************************************)
\* C26: the table's dependency count equals the length of the edge list the
\* graph derives from the same matrix, both being the number of cells equal
\* to 1, and the count is 0 when there is no matrix.
C26_CountEqualsEdges ==
    LET adj == dependencyMatrix.adjacencyMatrix
        ones == {<<i, j>> \in (1..Len(adj)) \X (1..Len(adj)) : adj[i][j] = 1}
    IN /\ dependencyCount = Len(dependencies)
       /\ dependencyCount = Cardinality(ones)
       /\ ~dependencyMatrix.present => dependencyCount = 0

\* a matrix with two cells equal to 1 and a cell equal to 2
C26_Witness ==
    /\ dependencyMatrix.adjacencyMatrix = <<<<1, 2>>, <<0, 1>>>>
    /\ dependencyCount = 2
    /\ Len(dependencies) = 2

(***************************************************************************)
(* Properties of the labels of parsed URLs.                                *)
(***************************************************************************)
\* the last segment of the path of a URL that parses: what follows the last
\* "/" of the path, the query string not being part of the path
LastPathSegment(url) ==
    CASE url = "https://a.example/api/items/" -> ""
      [] url = "https://a.example/api/items/42" -> "42"
      [] url = "https://a.example" -> ""
      [] url = "https://a.example/login?next=/home/" -> "login"

\* C28: the label of an entry whose URL parses is the method, a space and the
\* last segment of the URL path, or "/" in place of an empty last segment, so
\* that what follows the method is never empty.
C28_LabelOfParsedUrl ==
    rendered.ok =>
        \A k \in 1..Len(rendered.value.criticalPath) :
            LET node == rendered.value.criticalPath[k]
            IN (HasEntry(entries, node.index)
                  /\ NewURL(entries[node.index + 1].request.url).ok) =>
                 LET request == entries[node.index + 1].request
                     last == LastPathSegment(request.url)
                 IN /\ node.label = request.method \o " "
                                       \o (IF last = "" THEN "/" ELSE last)
                    /\ node.label # request.method \o " "

\* after the entries were replaced: a path ending in "/" labelled "GET /"
\* next to a URL with a query string labelled by the last segment of its path
C28_Witness ==
    /\ rendered.ok
    /\ Len(entries) = 2
    /\ entries[1].request.url = "https://a.example/api/items/"
    /\ entries[2].request.url = "https://a.example/login?next=/home/"
    /\ Len(rendered.value.criticalPath) = 2
    /\ rendered.value.criticalPath[1].label = "GET /"
    /\ rendered.value.criticalPath[2].label = "POST login"
    /\ lastOp = Op("propsChanged")

====
